---- MODULE Spec2Model ----
(***************************************************************************)
(* Job orchestration engine of openshorts (src/app.py, src/job_store.py,   *)
(* src/redis_client.py, src/models.py).                                    *)
(*                                                                         *)
(* Granularity.  Every coroutine runs on one asyncio event loop, so the    *)
(* code between two awaits is atomic.  A step of the model is one such     *)
(* segment.  An awaited Redis read (GET, PING) is the first thing of its   *)
(* step, an awaited Redis write (SET) the last thing of its step: the      *)
(* code that follows `await redis.set(...)` runs in the next step of the   *)
(* coroutine, so the state in which the server already holds the new       *)
(* record while the coroutine has not resumed is a state of the model.     *)
(*                                                                         *)
(* Optional values (Python None / value) are <<>> / <<value>>.             *)
(***************************************************************************)
EXTENDS Integers, Sequences, FiniteSets, TLC

(* ------------------------------ bounds -------------------------------- *)
\* submissions over the life of the process
MaxJobs == 2
\* largest configured MAX_CONCURRENT_JOBS explored
MaxK == 2
\* output lines one external process prints
MaxLines == 1
\* clip entries of a descriptor file
MaxClips == 1
\* clips a descriptor lists at most in the runs that look at the scanner alone
ScanClips == 3
\* lines a process prints at most in the runs that look at the log alone
LogLines == 2
\* words in a line handed to parse_progress in the runs that look at it alone
MaxWords == 2

JobIds == 1..MaxJobs

None == <<>>
Some(x) == <<x>>
IsSome(o) == o # <<>>
Get(o) == o[1]

(* ------------------------------ state --------------------------------- *)
VARIABLES
  K,             \* MAX_CONCURRENT_JOBS as read from the environment at start
  redisUp,       \* the Redis server answers (PING, GET, SET succeed)
  store,         \* Redis: job id -> JobData, for the keys that exist
  job_api_keys,  \* app.job_api_keys: job id -> secret, for the ids it holds
  job_queue_v2,  \* app.job_queue_v2
  job_queue,     \* app.job_queue (in-memory channel)
  jobs,          \* app.jobs: job id -> dict, for the ids it holds
  sem,           \* concurrency_semaphore._value
  disp,          \* per dispatcher ("v1", "v2"): the id taken off its queue, awaiting a slot
  chan,          \* per job: "none", or the channel it was submitted on
  pc,            \* per job: position of its request handler / wrapper task
  loc,           \* per job: the JobData a store helper of its Supervisor has loaded
  arg,           \* per job: what the Supervisor's pending helper call was given
  proc,          \* per job: the external process (state, returncode)
  thread,        \* per job: the log-draining thread ("none", "reading", "closed")
  emitted,       \* per job: lines the thread has read so far
  fs,            \* per job: the output directory (descriptor, artifacts)
  clock,         \* per job: logical time, advanced by every utcnow() for that job
  coros,         \* store coroutines scheduled by the log threads, in flight
  resp,          \* per job: what the submit request returned
  query,         \* the answer a query endpoint gave in the last step, if it was one
  putOrder,      \* history: ids in the order they were put on a queue
  acqOrder,      \* history: ids in the order a gate slot was acquired for them
  relCount,      \* history: per job, releases of the gate by its wrapper
  everTerminal,  \* history: ids whose stored record has been Completed or Failed
  finRuns,       \* history: per job, runs of finalize_job_v2
  ttl,           \* Redis: per key that exists, the seconds left before it expires
  workload,      \* what a process of this run produces at most: lines, clips
  scanDir,       \* history: per job, the directory as its scan in progress saw it
  raised,        \* history: per job, the last exception raised inside run_job_v2
  log_line,      \* the argument of a call of parse_progress
  extracted      \* what that call returned, once it has returned

vars == <<K, redisUp, store, job_api_keys, job_queue_v2, job_queue, jobs, sem,
          disp, chan, pc, loc, arg, proc, thread, emitted, fs, clock, coros,
          resp, query, putOrder, acqOrder, relCount, everTerminal, finRuns,
          ttl, workload, scanDir, raised, log_line, extracted>>

(* --------------------------- models.py -------------------------------- *)
QUEUED == "queued"
PROCESSING == "processing"
COMPLETED == "completed"
FAILED == "failed"
JobStatus == {QUEUED, PROCESSING, COMPLETED, FAILED}
Terminal == {COMPLETED, FAILED}

\* A log line is its sequence of words.
\* a JobData that also carries the submitted key
JobDataWithKey(j, now) ==
  [ job_id |-> j, status |-> QUEUED, created_at |-> now,
    started_at |-> None, completed_at |-> None,
    progress_percentage |-> 0, progress_stage |-> None,
    logs |-> << <<"job", "queued">> >>, result |-> None, error |-> None,
    api_key |-> "secret" ]

\* JobData as process_v2 builds it (the fields the engine never changes,
\* input_url and caption_settings, are left out)
JobData(j, now) ==
  [ job_id |-> j, status |-> QUEUED, created_at |-> now,
    started_at |-> None, completed_at |-> None,
    progress_percentage |-> 0, progress_stage |-> None,
    logs |-> << <<"job", "queued">> >>, result |-> None, error |-> None ]

\* ClipResult for descriptor entry i (1-based) of job j; the media locator is
\* /videos/{job}/{base}_clip_{i}.mp4
ClipResult(j, i) ==
  [ video_url |-> [job |-> j, clip |-> i],
    title |-> i, description_tiktok |-> i, description_instagram |-> i,
    description_youtube |-> i ]

JobResult(clips) == [clips |-> clips, transcript |-> None]

(* --------------------------- job_store.py ----------------------------- *)
\* the retention window of a key, in seconds
JOB_TTL_SECONDS == 24 * 60 * 60

\* RedisJobStore.create_job: SET key data EX JOB_TTL_SECONDS (full upsert)
create_job(s, job) ==
  [k \in DOMAIN s \cup {job.job_id} |-> IF k = job.job_id THEN job ELSE s[k]]

\* a get_job that answers a missing key with a fresh record
get_job_or_new(s, j) == IF j \in DOMAIN s THEN Some(s[j]) ELSE Some(JobData(j, 0))

\* RedisJobStore.get_job: the record, or None
get_job(s, j) == IF j \in DOMAIN s THEN Some(s[j]) ELSE None

\* the key's expiry: the record and its key are gone
expire(s, j) == [k \in DOMAIN s \ {j} |-> s[k]]

\* a set_status that stamps completed_at on every status change
set_status_fields_always_completed(job, status, now, error) ==
  LET a == [job EXCEPT !.status = status, !.completed_at = Some(now)]
  IN  IF status = PROCESSING THEN [a EXCEPT !.started_at = Some(now)]
      ELSE IF status \in Terminal
           THEN [a EXCEPT !.error = IF IsSome(error) THEN error ELSE @]
           ELSE a

\* the field changes of set_status on a loaded record
set_status_fields(job, status, now, error) ==
  LET a == [job EXCEPT !.status = status]
  IN  IF status = PROCESSING THEN [a EXCEPT !.started_at = Some(now)]
      ELSE IF status \in Terminal
           THEN [a EXCEPT !.completed_at = Some(now),
                          !.error = IF IsSome(error) THEN error ELSE @]
           ELSE a

\* the field change of append_log on a loaded record
append_log_fields(job, message) == [job EXCEPT !.logs = Append(@, message)]

\* an update_progress that never lowers the percentage
update_progress_fields_monotonic(job, percentage, stage) ==
  [job EXCEPT !.progress_percentage = IF percentage > @ THEN percentage ELSE @,
              !.progress_stage = IF IsSome(stage) /\ percentage > job.progress_percentage
                                 THEN stage ELSE @]

\* the field changes of update_progress on a loaded record
update_progress_fields(job, percentage, stage) ==
  [job EXCEPT !.progress_percentage = percentage,
              !.progress_stage = IF IsSome(stage) THEN stage ELSE @]

\* the field change of set_result on a loaded record
set_result_fields(job, result) == [job EXCEPT !.result = Some(result)]

(* ----------------------------- app.py --------------------------------- *)
\* str.lower() on the words the external process prints
Lower(w) ==
  CASE w = "Downloading" -> "downloading"
    [] w = "TRANSCRIBING" -> "transcribing"
    [] w = "Analyzing" -> "analyzing"
    [] w = "Analyzed" -> "analyzed"
    [] w = "Gemini" -> "gemini"
    [] w = "Processing" -> "processing"
    [] w = "Saved" -> "saved"
    [] OTHER -> w

\* the strings of interest that occur inside a lower-case word
Within(w) ==
  CASE w = "analyzing" -> {"analyzing", "analyz"}
    [] w = "analyzed" -> {"analyzed", "analyz"}
    [] OTHER -> {w}

\* `needle in line_lower`, for a needle of one word or of two adjacent words
Contains1(line, w) == \E i \in 1..Len(line) : w \in Within(Lower(line[i]))
Contains2(line, w1, w2) ==
  \E i \in 1..(Len(line) - 1) : Lower(line[i]) = w1 /\ Lower(line[i + 1]) = w2

\* parse_progress with its first two tests in the other order
parse_progress_swapped(line) ==
  IF Contains1(line, "transcribing") THEN Some(<<30, "Transcribing audio">>)
  ELSE IF Contains1(line, "downloading") THEN Some(<<10, "Downloading video">>)
  ELSE IF Contains1(line, "analyzing") \/ Contains1(line, "gemini")
       THEN Some(<<50, "AI analysis">>)
  ELSE IF Contains2(line, "processing", "clip") \/ Contains1(line, "extracting")
       THEN Some(<<70, "Creating clips">>)
  ELSE IF Contains2(line, "clip", "saved") \/ Contains2(line, "saved", "to")
       THEN Some(<<90, "Finalizing">>)
  ELSE None

\* parse_progress: (percentage, stage) of the first matching rule, or None
parse_progress(line) ==
  IF Contains1(line, "downloading") THEN Some(<<10, "Downloading video">>)
  ELSE IF Contains1(line, "transcribing") THEN Some(<<30, "Transcribing audio">>)
  ELSE IF Contains1(line, "analyzing") \/ Contains1(line, "gemini")
       THEN Some(<<50, "AI analysis">>)
  ELSE IF Contains2(line, "processing", "clip") \/ Contains1(line, "extracting")
       THEN Some(<<70, "Creating clips">>)
  ELSE IF Contains2(line, "clip", "saved") \/ Contains2(line, "saved", "to")
       THEN Some(<<90, "Finalizing">>)
  ELSE None

\* the words of the lines parse_progress is tried on, and those lines
Words ==
  {"Downloading", "TRANSCRIBING", "Analyzing", "Analyzed", "Gemini",
   "Processing", "clip", "extracting", "Saved", "to", "video"}

ProgressLines == UNION { [1..n -> Words] : n \in 0..MaxWords }

\* the lines an external process may print
Lines == { <<"Downloading", "video">>, <<"TRANSCRIBING", "audio">>, <<"done">> }

\* error texts: the text, and the exit code it embeds if any
Err(text, code) == Some([text |-> text, code |-> code])
NoMetadataError == Err("No metadata file generated", None)
ExitCodeError(rc) == Err("Process failed with exit code", Some(rc))
ExceptionError(what) == Err(what, None)

\* exit codes of the external process
ExitCodes == {0, 7}

\* the output directory of a job: the descriptor file *_metadata.json
\* ("none", "empty": zero bytes, "bad": not parseable, "ok": n entries under
\* 'shorts') and the indices i whose artifact {base}_clip_{i}.mp4 exists
\* and is non-empty
EmptyDir == [meta |-> "none", n |-> 0, arts |-> {}]

RECURSIVE ClipsFrom(_, _, _, _)
\* the loop over enumerate(clips): entries i..n, keeping those in `keep`
ClipsFrom(j, i, n, keep) ==
  IF i > n THEN <<>>
  ELSE (IF i \in keep THEN <<ClipResult(j, i)>> ELSE <<>>) \o ClipsFrom(j, i + 1, n, keep)

\* check_partial_results_v2, lines 352-364: the clips whose artifact exists
ready_clips(j, dir) == ClipsFrom(j, 1, dir.n, dir.arts)

\* finalize_job_v2, lines 382-392: every entry of the descriptor
result_clips(j, dir) == ClipsFrom(j, 1, dir.n, 1..dir.n)

\* subprocess.Popen objects: poll() is None while running
NoProcess == [state |-> "none", returncode |-> None]
Running == [state |-> "running", returncode |-> None]
Exited(rc) == [state |-> "exited", returncode |-> Some(rc)]

(* ------------------------------ Init ---------------------------------- *)
\* the state once the module is loaded and the dispatchers run, for a run
\* whose processes print at most `lines` lines and list at most `clips` clips
InitLine(lines, clips, inputs) ==
  /\ K \in 1..MaxK
  /\ log_line \in inputs
  /\ extracted = None
  /\ workload = [lines |-> lines, clips |-> clips]
  /\ ttl = <<>>
  /\ scanDir = [j \in JobIds |-> None]
  /\ raised = [j \in JobIds |-> None]
  /\ redisUp = TRUE
  /\ store = <<>>
  /\ job_api_keys = <<>>
  /\ job_queue_v2 = <<>>
  /\ job_queue = <<>>
  /\ jobs = <<>>
  /\ sem = K
  /\ disp = [c \in {"v1", "v2"} |-> None]
  /\ chan = [j \in JobIds |-> "none"]
  /\ pc = [j \in JobIds |-> "idle"]
  /\ loc = [j \in JobIds |-> None]
  /\ arg = [j \in JobIds |-> None]
  /\ proc = [j \in JobIds |-> NoProcess]
  /\ thread = [j \in JobIds |-> "none"]
  /\ emitted = [j \in JobIds |-> <<>>]
  /\ fs = [j \in JobIds |-> EmptyDir]
  /\ clock = [j \in JobIds |-> 1]
  /\ coros = {}
  /\ resp = [j \in JobIds |-> "none"]
  /\ query = None
  /\ putOrder = <<>>
  /\ acqOrder = <<>>
  /\ relCount = [j \in JobIds |-> 0]
  /\ everTerminal = {}
  /\ finRuns = [j \in JobIds |-> 0]

InitWith(lines, clips) == InitLine(lines, clips, {<<>>})

Init == InitWith(MaxLines, MaxClips)

(* --------------------------- shared pieces ---------------------------- *)
\* datetime.utcnow() for job j
Now(j) == clock[j]
Tick(j) == clock' = [clock EXCEPT ![j] = @ + 1]

\* a SET that leaves the key's expiry as it was (KEEPTTL)
StoreWriteKeepTtl(job) ==
  /\ store' = create_job(store, job)
  /\ ttl' = [k \in DOMAIN ttl \cup {job.job_id} |->
               IF k \in DOMAIN ttl THEN ttl[k] ELSE JOB_TTL_SECONDS]
  /\ everTerminal' = IF job.status \in Terminal
                     THEN everTerminal \cup {job.job_id} ELSE everTerminal

\* the SET of create_job reaching the server, with ex=JOB_TTL_SECONDS
StoreWrite(job) ==
  /\ store' = create_job(store, job)
  /\ ttl' = [k \in DOMAIN ttl \cup {job.job_id} |->
               IF k = job.job_id THEN JOB_TTL_SECONDS ELSE ttl[k]]
  /\ everTerminal' = IF job.status \in Terminal
                     THEN everTerminal \cup {job.job_id} ELSE everTerminal

\* a finally that releases the semaphore twice
ReleaseTwice(j) ==
  /\ sem' = sem + 2
  /\ relCount' = [relCount EXCEPT ![j] = @ + 1]

\* concurrency_semaphore.release() in a wrapper's finally
Release(j) ==
  /\ sem' = sem + 1
  /\ relCount' = [relCount EXCEPT ![j] = @ + 1]

\* `del job_api_keys[job_id]` if present (run_job_v2's finally)
DelKey(keys, j) == [k \in DOMAIN keys \ {j} |-> keys[k]]

Goto(j, l) == pc' = [pc EXCEPT ![j] = l]
SetLoc(j, v) == loc' = [loc EXCEPT ![j] = v]
SetArg(j, v) == arg' = [arg EXCEPT ![j] = v]

progVars == <<log_line, extracted>>
envVars == <<K, redisUp, workload, progVars>>
queueVars == <<job_queue_v2, job_queue, disp, putOrder>>
procVars == <<proc, thread, emitted, fs, coros>>
histVars == <<acqOrder, finRuns, scanDir, raised>>
v1Vars == <<jobs>>

(* ------------------- process_v2: POST /api/v2/process ----------------- *)
\* a process_v2 that skips get_redis() and goes on to validate the request
process_v2_unchecked(j) ==
  /\ pc[j] = "idle"
  /\ \A i \in 1..(j - 1) : pc[i] # "idle"
  /\ chan' = [chan EXCEPT ![j] = "v2"]
  /\ \E valid \in BOOLEAN :
       IF valid THEN Goto(j, "s_create") /\ UNCHANGED resp
       ELSE Goto(j, "rejected") /\ resp' = [resp EXCEPT ![j] = "bad_request"]
  /\ UNCHANGED <<envVars, store, ttl, job_api_keys, queueVars, jobs, sem, loc, arg,
                 procVars, clock, histVars, relCount, everTerminal>>
  /\ query' = None

\* lines 474-495: get_redis() (PING), then the request's validation
process_v2_check(j) ==
  /\ pc[j] = "idle"
  /\ \A i \in 1..(j - 1) : pc[i] # "idle"
  /\ chan' = [chan EXCEPT ![j] = "v2"]
  /\ IF ~redisUp
     THEN Goto(j, "rejected") /\ resp' = [resp EXCEPT ![j] = "unavailable"]
     ELSE \E valid \in BOOLEAN :
            IF valid THEN Goto(j, "s_create") /\ UNCHANGED resp
            ELSE Goto(j, "rejected") /\ resp' = [resp EXCEPT ![j] = "bad_request"]
  /\ UNCHANGED <<envVars, store, ttl, job_api_keys, queueVars, jobs, sem, loc, arg,
                 procVars, clock, histVars, relCount, everTerminal>>
  /\ query' = None

\* lines 497-514: build the JobData, await store.create_job(job)
process_v2_create(j) ==
  /\ pc[j] = "s_create"
  /\ IF redisUp
     THEN /\ StoreWrite(JobData(j, Now(j)))
          /\ Tick(j)
          /\ Goto(j, "s_put")
          /\ UNCHANGED resp
     ELSE /\ Goto(j, "rejected")
          /\ resp' = [resp EXCEPT ![j] = "error"]
          /\ UNCHANGED <<store, ttl, everTerminal, clock>>
  /\ UNCHANGED <<envVars, job_api_keys, queueVars, jobs, sem, chan, loc, arg,
                 procVars, histVars, relCount>>
  /\ query' = None

\* lines 516-521: remember the key, put the id on the queue, answer
process_v2_put(j) ==
  /\ pc[j] = "s_put"
  /\ job_api_keys' = [k \in DOMAIN job_api_keys \cup {j} |->
                        IF k = j THEN "secret" ELSE job_api_keys[k]]
  /\ job_queue_v2' = Append(job_queue_v2, j)
  /\ putOrder' = Append(putOrder, j)
  /\ resp' = [resp EXCEPT ![j] = "queued"]
  /\ Goto(j, "queued")
  /\ UNCHANGED <<envVars, store, ttl, job_queue, disp, jobs, sem, chan, loc, arg,
                 procVars, clock, histVars, relCount, everTerminal>>
  /\ query' = None

(* ------------------ process_endpoint: POST /api/process --------------- *)
\* lines 581-648: the in-memory channel's submission
process_endpoint(j) ==
  /\ pc[j] = "idle"
  /\ \A i \in 1..(j - 1) : pc[i] # "idle"
  /\ chan' = [chan EXCEPT ![j] = "v1"]
  /\ \E valid \in BOOLEAN :
       IF valid
       THEN /\ jobs' = [k \in DOMAIN jobs \cup {j} |->
                          IF k = j
                          THEN [status |-> QUEUED, logs |-> << <<"job", "queued">> >>,
                                result |-> None]
                          ELSE jobs[k]]
            /\ job_queue' = Append(job_queue, j)
            /\ putOrder' = Append(putOrder, j)
            /\ resp' = [resp EXCEPT ![j] = "queued"]
            /\ Goto(j, "queued")
       ELSE /\ Goto(j, "rejected")
            /\ resp' = [resp EXCEPT ![j] = "bad_request"]
            /\ UNCHANGED <<jobs, job_queue, putOrder>>
  /\ UNCHANGED <<envVars, store, ttl, job_api_keys, job_queue_v2, disp, sem, loc, arg,
                 procVars, clock, histVars, relCount, everTerminal>>
  /\ query' = None

(* ---------------- process_queue / process_queue_v2 -------------------- *)
QueueOf(c) == IF c = "v2" THEN job_queue_v2 ELSE job_queue

\* a dispatcher that takes the newest id off its queue
DequeuedLast(q) == q[Len(q)]

\* the id the dispatcher takes off its queue
Dequeued(q) == Head(q)

\* a dispatcher that reads the head of its queue and leaves it there
dispatcher_get_peek(c) ==
  /\ disp[c] = None
  /\ QueueOf(c) # <<>>
  /\ disp' = [disp EXCEPT ![c] = Some(Dequeued(QueueOf(c)))]
  /\ UNCHANGED <<job_queue_v2, job_queue>>
  /\ UNCHANGED <<envVars, store, ttl, job_api_keys, jobs, sem, chan, pc, loc, arg,
                 procVars, clock, resp, putOrder, histVars, relCount,
                 everTerminal>>
  /\ query' = None

\* `job_id = await job_queue.get()`
dispatcher_get(c) ==
  /\ disp[c] = None
  /\ QueueOf(c) # <<>>
  /\ disp' = [disp EXCEPT ![c] = Some(Dequeued(QueueOf(c)))]
  /\ IF c = "v2"
     THEN job_queue_v2' = SelectSeq(job_queue_v2, LAMBDA x : x # Dequeued(job_queue_v2))
          /\ UNCHANGED job_queue
     ELSE job_queue' = SelectSeq(job_queue, LAMBDA x : x # Dequeued(job_queue))
          /\ UNCHANGED job_queue_v2
  /\ UNCHANGED <<envVars, store, ttl, job_api_keys, jobs, sem, chan, pc, loc, arg,
                 procVars, clock, resp, putOrder, histVars, relCount,
                 everTerminal>>
  /\ query' = None

\* Semaphore.acquire(): may the caller take a slot now
CanAcquire(value) == value > 0

\* `await concurrency_semaphore.acquire()`, then create_task(wrapper(job_id))
dispatcher_acquire(c) ==
  /\ IsSome(disp[c])
  /\ CanAcquire(sem)
  /\ sem' = sem - 1
  /\ acqOrder' = Append(acqOrder, Get(disp[c]))
  /\ Goto(Get(disp[c]), IF c = "v2" THEN "w_start" ELSE "v1_start")
  /\ disp' = [disp EXCEPT ![c] = None]
  /\ UNCHANGED <<envVars, store, ttl, job_api_keys, job_queue_v2, job_queue, jobs, chan,
                 loc, arg, procVars, clock, resp, putOrder, finRuns, scanDir, raised,
                 relCount,
                 everTerminal>>
  /\ query' = None

(* ------------------ run_job_v2_wrapper / run_job_v2 ------------------- *)
\* The Supervisor's store helper calls, by the label of their read half:
\*   ps  set_status(PROCESSING)            line 402 (outside the try)
\*   al  append_log("Job started ...")     line 403 (outside the try)
\*   sr  set_result(ready clips)           line 367 (check_partial_results_v2)
\*   fr  set_result(all clips)             line 394 (finalize_job_v2)
\*   cs  set_status(COMPLETED)             line 395
\*   fs  set_status(FAILED, error)         lines 397, 451 (inside the try)
\*   xs  set_status(FAILED, str(e))        line 457 (the except handler)
GetLabels == {"ps_get", "al_get", "sr_get", "fr_get", "cs_get", "fs_get", "xs_get"}
SetLabels == {"ps_set", "al_set", "sr_set", "fr_set", "cs_set", "fs_set", "xs_set"}

Call(l) ==
  CASE l \in {"ps_get", "ps_set"} -> "ps" [] l \in {"al_get", "al_set"} -> "al"
    [] l \in {"sr_get", "sr_set"} -> "sr" [] l \in {"fr_get", "fr_set"} -> "fr"
    [] l \in {"cs_get", "cs_set"} -> "cs" [] l \in {"fs_get", "fs_set"} -> "fs"
    [] l \in {"xs_get", "xs_set"} -> "xs"

WriteHalf(l) ==
  CASE l = "ps_get" -> "ps_set" [] l = "al_get" -> "al_set" [] l = "sr_get" -> "sr_set"
    [] l = "fr_get" -> "fr_set" [] l = "cs_get" -> "cs_set" [] l = "fs_get" -> "fs_set"
    [] l = "xs_get" -> "xs_set"

\* where run_job_v2 continues when the helper call returns
AfterCall(c) ==
  CASE c = "ps" -> "al_get" [] c = "al" -> "spawn" [] c = "sr" -> "check"
    [] c = "fr" -> "cs_get" [] c = "cs" -> "fin" [] c = "fs" -> "fin" [] c = "xs" -> "fin"

\* helpers whose failure reports store the error text and leave the status
MutatedErrorOnly(c, job, j) ==
  CASE c = "ps" -> set_status_fields(job, PROCESSING, Now(j), None)
    [] c = "al" -> append_log_fields(job, <<"job", "started">>)
    [] c \in {"sr", "fr"} -> set_result_fields(job, Get(arg[j]))
    [] c = "cs" -> set_status_fields(job, COMPLETED, Now(j), None)
    [] c \in {"fs", "xs"} -> [job EXCEPT !.error = arg[j]]

\* what the helper does to the record it loaded
Mutated(c, job, j) ==
  CASE c = "ps" -> set_status_fields(job, PROCESSING, Now(j), None)
    [] c = "al" -> append_log_fields(job, <<"job", "started">>)
    [] c \in {"sr", "fr"} -> set_result_fields(job, Get(arg[j]))
    [] c = "cs" -> set_status_fields(job, COMPLETED, Now(j), None)
    [] c \in {"fs", "xs"} -> set_status_fields(job, FAILED, Now(j), arg[j])

\* a run_job_v2 whose finally leaves the secret in the map
cleanup_v2_keeps_key(j) ==
  /\ UNCHANGED job_api_keys
  /\ Release(j)
  /\ Goto(j, "done")

\* run_job_v2's finally (lines 458-461) followed by the wrapper's (289-292)
cleanup_v2(j) ==
  /\ job_api_keys' = DelKey(job_api_keys, j)
  /\ Release(j)
  /\ Goto(j, "done")

\* a wrapper whose finally does not release the slot
wrapper_exit_keeps_slot(j) ==
  /\ UNCHANGED <<sem, relCount>>
  /\ Goto(j, "done")
  /\ UNCHANGED job_api_keys

\* an exception that leaves run_job_v2 before its try: the wrapper's
\* except and finally only (lines 287-292)
wrapper_exit(j) ==
  /\ Release(j)
  /\ Goto(j, "done")
  /\ UNCHANGED job_api_keys

\* an exception with message `what` is raised inside run_job_v2
Raise(j, what) == raised' = [raised EXCEPT ![j] = what]

\* a Redis call of helper c raises: where control goes
Raised(j, c) ==
  /\ IF c = "sr" THEN UNCHANGED raised  \* swallowed inside the scan (line 366)
     ELSE Raise(j, ExceptionError("ConnectionError"))
  /\ CASE c \in {"ps", "al"} -> wrapper_exit(j) /\ SetArg(j, None)
       [] c = "sr" -> Goto(j, "check") /\ SetArg(j, None)
                      /\ UNCHANGED <<job_api_keys, sem, relCount>>
       [] c \in {"fr", "cs", "fs"} ->
            /\ Goto(j, "xs_get")
            /\ SetArg(j, ExceptionError("ConnectionError"))
            /\ UNCHANGED <<job_api_keys, sem, relCount>>
       [] c = "xs" -> cleanup_v2(j) /\ SetArg(j, None)

\* lines 278-280: get_redis(); no client: return through the finally
run_job_v2_wrapper_start(j) ==
  /\ pc[j] = "w_start"
  /\ IF redisUp
     THEN Goto(j, "w_get") /\ UNCHANGED <<job_api_keys, sem, relCount>>
     ELSE wrapper_exit(j)
  /\ UNCHANGED <<envVars, store, ttl, queueVars, jobs, chan, loc, arg, procVars, clock,
                 resp, histVars, everTerminal>>
  /\ query' = None

\* lines 282-286: store.get_job(job_id); run_job_v2 only if the record exists
run_job_v2_wrapper_get(j) ==
  /\ pc[j] = "w_get"
  /\ IF redisUp /\ IsSome(get_job(store, j))
     THEN Goto(j, "ps_get") /\ UNCHANGED <<job_api_keys, sem, relCount>>
     ELSE wrapper_exit(j)
  /\ UNCHANGED <<envVars, store, ttl, queueVars, jobs, chan, loc, arg, procVars, clock,
                 resp, histVars, everTerminal>>
  /\ query' = None

\* the read half of a helper: job = await self.get_job(job_id), then the
\* field changes on the loaded copy
helper_get(j) ==
  /\ pc[j] \in GetLabels
  /\ LET c == Call(pc[j])
         r == get_job(store, j)
     IN  IF ~redisUp
         THEN Raised(j, c) /\ UNCHANGED <<loc, clock>>
         ELSE IF r = None
         THEN /\ Goto(j, AfterCall(c))
              /\ SetArg(j, None)
              /\ UNCHANGED <<loc, clock, job_api_keys, sem, relCount, raised>>
         ELSE /\ SetLoc(j, Some(Mutated(c, Get(r), j)))
              /\ Goto(j, WriteHalf(pc[j]))
              /\ IF c \in {"ps", "cs", "fs", "xs"} THEN Tick(j) ELSE UNCHANGED clock
              /\ SetArg(j, None)
              /\ UNCHANGED <<job_api_keys, sem, relCount, raised>>
  /\ UNCHANGED <<envVars, store, ttl, queueVars, jobs, chan, procVars, resp,
                 acqOrder, finRuns, scanDir, everTerminal>>
  /\ query' = None

\* the write half of a helper: await self.create_job(job)
helper_set(j) ==
  /\ pc[j] \in SetLabels
  /\ LET c == Call(pc[j])
     IN  IF ~redisUp
         THEN Raised(j, c) /\ UNCHANGED <<store, ttl, everTerminal>>
         ELSE /\ StoreWrite(Get(loc[j]))
              /\ Goto(j, AfterCall(c))
              /\ UNCHANGED <<arg, job_api_keys, sem, relCount, raised>>
  /\ SetLoc(j, None)
  /\ UNCHANGED <<envVars, queueVars, jobs, chan, procVars, clock, resp,
                 acqOrder, finRuns, scanDir>>
  /\ query' = None

\* lines 405-445: output directory, command, Popen, log thread, first sleep
run_job_v2_spawn(j) ==
  /\ pc[j] = "spawn"
  /\ \E outcome \in {"ok", "makedirs raises", "Popen raises"} :
       CASE outcome = "ok" ->
              /\ proc' = [proc EXCEPT ![j] = Running]
              /\ thread' = [thread EXCEPT ![j] = "reading"]
              /\ Goto(j, "scan")
              /\ UNCHANGED <<arg, job_api_keys, sem, relCount, raised>>
         [] outcome = "makedirs raises" ->
              /\ Raise(j, ExceptionError("OSError"))
              /\ wrapper_exit(j)
              /\ UNCHANGED <<arg, proc, thread>>
         [] outcome = "Popen raises" ->
              /\ Raise(j, ExceptionError("OSError"))
              /\ SetArg(j, ExceptionError("OSError"))
              /\ Goto(j, "xs_get")
              /\ UNCHANGED <<proc, thread, job_api_keys, sem, relCount>>
  /\ UNCHANGED <<envVars, store, ttl, queueVars, jobs, chan, loc, emitted, fs, coros,
                 clock, resp, acqOrder, finRuns, scanDir, everTerminal>>
  /\ query' = None

\* a loop test that enters finalize_job_v2 whatever the exit code is
loop_test_any_code(j) ==
  IF proc[j].state = "running"
  THEN Goto(j, "scan") /\ UNCHANGED <<arg, finRuns, raised>>
  ELSE /\ finRuns' = [finRuns EXCEPT ![j] = @ + 1]
       /\ CASE fs[j].meta = "none" ->
                 /\ SetArg(j, NoMetadataError) /\ Goto(j, "fs_get")
                 /\ UNCHANGED raised
            [] fs[j].meta \in {"empty", "bad"} ->
                 /\ Raise(j, ExceptionError("JSONDecodeError"))
                 /\ SetArg(j, ExceptionError("JSONDecodeError")) /\ Goto(j, "xs_get")
            [] fs[j].meta = "ok" ->
                 /\ SetArg(j, Some(JobResult(result_clips(j, fs[j])))) /\ Goto(j, "fr_get")
                 /\ UNCHANGED raised

\* lines 444-454: the loop test `process.poll() is None`; on exit, code 0
\* enters finalize_job_v2 (lines 374-397), another code reports the failure
loop_test(j) ==
  IF proc[j].state = "running"
  THEN Goto(j, "scan") /\ UNCHANGED <<arg, finRuns, raised>>
  ELSE IF Get(proc[j].returncode) = 0
  THEN /\ finRuns' = [finRuns EXCEPT ![j] = @ + 1]
       /\ CASE fs[j].meta = "none" ->
                 /\ SetArg(j, NoMetadataError) /\ Goto(j, "fs_get")
                 /\ UNCHANGED raised
            [] fs[j].meta \in {"empty", "bad"} ->
                 /\ Raise(j, ExceptionError("JSONDecodeError"))
                 /\ SetArg(j, ExceptionError("JSONDecodeError")) /\ Goto(j, "xs_get")
            [] fs[j].meta = "ok" ->
                 /\ SetArg(j, Some(JobResult(result_clips(j, fs[j])))) /\ Goto(j, "fr_get")
                 /\ UNCHANGED raised
  ELSE /\ SetArg(j, ExitCodeError(Get(proc[j].returncode)))
       /\ Goto(j, "fs_get")
       /\ UNCHANGED <<finRuns, raised>>

\* a scan without the `except Exception: pass`: a descriptor that does not
\* parse raises into run_job_v2
check_partial_results_v2_raising(j) ==
  /\ pc[j] = "scan"
  /\ IF fs[j].meta = "ok" /\ ready_clips(j, fs[j]) # <<>>
     THEN /\ SetArg(j, Some(JobResult(ready_clips(j, fs[j])))) /\ Goto(j, "sr_get")
          /\ UNCHANGED raised
     ELSE IF fs[j].meta = "bad"
     THEN /\ Raise(j, ExceptionError("JSONDecodeError"))
          /\ SetArg(j, ExceptionError("JSONDecodeError")) /\ Goto(j, "xs_get")
     ELSE Goto(j, "check") /\ UNCHANGED <<arg, raised>>
  /\ scanDir' = [scanDir EXCEPT ![j] = Some(fs[j])]
  /\ UNCHANGED <<envVars, store, ttl, job_api_keys, queueVars, jobs, sem, chan, loc,
                 procVars, clock, resp, acqOrder, finRuns, relCount,
                 everTerminal>>
  /\ query' = None

\* lines 338-367 after a sleep: look for the descriptor and the artifacts;
\* only a non-empty list of ready clips is stored
check_partial_results_v2(j) ==
  /\ pc[j] = "scan"
  /\ IF fs[j].meta = "ok" /\ ready_clips(j, fs[j]) # <<>>
     THEN SetArg(j, Some(JobResult(ready_clips(j, fs[j])))) /\ Goto(j, "sr_get")
     ELSE Goto(j, "check") /\ UNCHANGED arg
  /\ scanDir' = [scanDir EXCEPT ![j] = Some(fs[j])]
  /\ UNCHANGED <<envVars, store, ttl, job_api_keys, queueVars, jobs, sem, chan, loc,
                 procVars, clock, resp, acqOrder, finRuns, raised, relCount,
                 everTerminal>>
  /\ query' = None

\* back in run_job_v2's loop once check_partial_results_v2 has returned
run_job_v2_loop(j) ==
  /\ pc[j] = "check"
  /\ loop_test(j)
  /\ scanDir' = [scanDir EXCEPT ![j] = None]
  /\ UNCHANGED <<envVars, store, ttl, job_api_keys, queueVars, jobs, sem, chan, loc,
                 procVars, clock, resp, acqOrder, relCount, everTerminal>>
  /\ query' = None

\* after the last status write: the two finally blocks
run_job_v2_finally(j) ==
  /\ pc[j] = "fin"
  /\ cleanup_v2(j)
  /\ UNCHANGED <<envVars, store, ttl, queueVars, jobs, chan, loc, arg, procVars, clock,
                 resp, histVars, everTerminal>>
  /\ query' = None

(* ------------------------ the external process ------------------------ *)
\* the process ends with an exit code
process_exits(j) ==
  /\ proc[j].state = "running"
  /\ \E rc \in ExitCodes : proc' = [proc EXCEPT ![j] = Exited(rc)]
  /\ UNCHANGED <<envVars, store, ttl, job_api_keys, queueVars, jobs, sem, chan, pc, loc,
                 arg, thread, emitted, fs, clock, coros, resp, histVars,
                 relCount, everTerminal>>
  /\ query' = None

\* the process creates or completes its descriptor file
process_writes_descriptor(j) ==
  /\ proc[j].state = "running"
  /\ \/ /\ fs[j].meta = "none"
        /\ \E m \in {"empty", "bad"} : fs' = [fs EXCEPT ![j].meta = m]
     \/ /\ fs[j].meta # "ok"
        /\ \E n \in 0..workload.clips : fs' = [fs EXCEPT ![j].meta = "ok", ![j].n = n]
  /\ UNCHANGED <<envVars, store, ttl, job_api_keys, queueVars, jobs, sem, chan, pc, loc,
                 arg, proc, thread, emitted, clock, coros, resp, histVars,
                 relCount, everTerminal>>
  /\ query' = None

\* the process renames a finished clip into place
process_writes_clip(j) ==
  /\ proc[j].state = "running"
  /\ \E i \in (1..workload.clips) \ fs[j].arts : fs' = [fs EXCEPT ![j].arts = @ \cup {i}]
  /\ UNCHANGED <<envVars, store, ttl, job_api_keys, queueVars, jobs, sem, chan, pc, loc,
                 arg, proc, thread, emitted, clock, coros, resp, histVars,
                 relCount, everTerminal>>
  /\ query' = None

\* the process deletes a clip file, or truncates it to rewrite it
process_removes_clip(j) ==
  /\ proc[j].state = "running"
  /\ \E i \in fs[j].arts : fs' = [fs EXCEPT ![j].arts = @ \ {i}]
  /\ UNCHANGED <<envVars, store, ttl, job_api_keys, queueVars, jobs, sem, chan, pc, loc,
                 arg, proc, thread, emitted, clock, coros, resp, histVars,
                 relCount, everTerminal>>
  /\ query' = None

(* ------------------ enqueue_output / enqueue_output_v2 ---------------- *)
\* the store coroutines run_coroutine_threadsafe schedules for one line
Scheduled(j, n, line) ==
  { [job |-> j, n |-> n, kind |-> "append_log", line |-> line, loc |-> None] }
  \cup (IF IsSome(parse_progress(line))
        THEN { [job |-> j, n |-> n, kind |-> "update_progress", line |-> line,
                loc |-> None] }
        ELSE {})

\* the thread reads one non-empty line from the pipe (lines 314-329; 152-157)
thread_reads_line(j) ==
  /\ thread[j] = "reading"
  /\ Len(emitted[j]) < workload.lines
  /\ \E line \in Lines :
       /\ emitted' = [emitted EXCEPT ![j] = Append(@, line)]
       /\ IF chan[j] = "v2"
          THEN /\ coros' = coros \cup Scheduled(j, Len(emitted[j]) + 1, line)
               /\ UNCHANGED jobs
          ELSE /\ jobs' = IF j \in DOMAIN jobs
                          THEN [jobs EXCEPT ![j].logs = Append(@, line)] ELSE jobs
               /\ UNCHANGED coros
  /\ UNCHANGED <<envVars, store, ttl, job_api_keys, queueVars, sem, chan, pc, loc, arg,
                 proc, thread, fs, clock, resp, histVars, relCount,
                 everTerminal>>
  /\ query' = None

\* end of file on the pipe once the process is gone: out.close()
thread_ends(j) ==
  /\ thread[j] = "reading"
  /\ proc[j].state = "exited"
  /\ thread' = [thread EXCEPT ![j] = "closed"]
  /\ UNCHANGED <<envVars, store, ttl, job_api_keys, queueVars, jobs, sem, chan, pc, loc,
                 arg, proc, emitted, fs, clock, coros, resp, histVars,
                 relCount, everTerminal>>
  /\ query' = None

\* what a scheduled coroutine does to the record it loaded
CoroMutated(c, job) ==
  IF c.kind = "append_log" THEN append_log_fields(job, c.line)
  ELSE update_progress_fields(job, Get(parse_progress(c.line))[1],
                              Some(Get(parse_progress(c.line))[2]))

\* read half of a scheduled append_log / update_progress
coro_get(c) ==
  /\ c \in coros
  /\ c.loc = None
  /\ IF redisUp /\ IsSome(get_job(store, c.job))
     THEN coros' = (coros \ {c})
                   \cup {[c EXCEPT !.loc = Some(CoroMutated(c, Get(get_job(store, c.job))))]}
     ELSE coros' = coros \ {c}
  /\ UNCHANGED <<envVars, store, ttl, job_api_keys, queueVars, jobs, sem, chan, pc, loc,
                 arg, proc, thread, emitted, fs, clock, resp, histVars,
                 relCount, everTerminal>>
  /\ query' = None

\* write half of a scheduled append_log / update_progress
coro_set(c) ==
  /\ c \in coros
  /\ IsSome(c.loc)
  /\ coros' = coros \ {c}
  /\ IF redisUp THEN StoreWrite(Get(c.loc)) ELSE UNCHANGED <<store, ttl, everTerminal>>
  /\ UNCHANGED <<envVars, job_api_keys, queueVars, jobs, sem, chan, pc, loc, arg,
                 proc, thread, emitted, fs, clock, resp, histVars, relCount>>
  /\ query' = None

(* ------------------------- the Redis server --------------------------- *)
\* the server stops answering
redis_fails ==
  /\ redisUp
  /\ redisUp' = FALSE
  /\ UNCHANGED <<K, workload, progVars, store, ttl, job_api_keys, queueVars, jobs, sem, chan, pc, loc, arg,
                 procVars, clock, resp, histVars, relCount, everTerminal>>
  /\ query' = None

\* the server answers again
redis_recovers ==
  /\ ~redisUp
  /\ redisUp' = TRUE
  /\ UNCHANGED <<K, workload, progVars, store, ttl, job_api_keys, queueVars, jobs, sem, chan, pc, loc, arg,
                 procVars, clock, resp, histVars, relCount, everTerminal>>
  /\ query' = None

\* half a retention window passes over a key no write has refreshed since
key_ages(j) ==
  /\ j \in DOMAIN store
  /\ ttl[j] = JOB_TTL_SECONDS
  /\ ttl' = [ttl EXCEPT ![j] = @ - JOB_TTL_SECONDS \div 2]
  /\ UNCHANGED <<envVars, store, job_api_keys, queueVars, jobs, sem, chan, pc, loc,
                 arg, procVars, clock, resp, histVars, relCount, everTerminal>>
  /\ query' = None

\* a key's JOB_TTL_SECONDS run out (no write refreshed it in time)
key_expires(j) ==
  /\ j \in DOMAIN store
  /\ store' = expire(store, j)
  /\ ttl' = expire(ttl, j)
  /\ UNCHANGED <<envVars, job_api_keys, queueVars, jobs, sem, chan, pc, loc, arg,
                 procVars, clock, resp, histVars, relCount, everTerminal>>
  /\ query' = None

(* -------------------- run_job_wrapper / run_job ----------------------- *)
V1Set(j, status, line) ==
  [jobs EXCEPT ![j].status = status, ![j].logs = Append(@, line)]

\* lines 100-103 and 166-191: the wrapper looks the job up; run_job marks it
\* processing and spawns the process
run_job_start(j) ==
  /\ pc[j] = "v1_start"
  /\ \E outcome \in {"ok", "Popen raises"} :
       IF outcome = "ok"
       THEN /\ jobs' = V1Set(j, PROCESSING, <<"job", "started">>)
            /\ proc' = [proc EXCEPT ![j] = Running]
            /\ thread' = [thread EXCEPT ![j] = "reading"]
            /\ Goto(j, "v1_scan")
            /\ UNCHANGED <<sem, relCount>>
       ELSE /\ jobs' = [V1Set(j, PROCESSING, <<"job", "started">>) EXCEPT
                          ![j].status = FAILED,
                          ![j].logs = Append(@, <<"Execution", "error">>)]
            /\ Release(j)
            /\ Goto(j, "done")
            /\ UNCHANGED <<proc, thread>>
  /\ UNCHANGED <<envVars, store, ttl, job_api_keys, queueVars, chan, loc, arg, emitted, fs,
                 coros, clock, resp, histVars, everTerminal>>
  /\ query' = None

\* lines 190-230 and 250-252 after a sleep: the partial-result scan, the loop
\* test and, once the process is gone, the first status assignment
run_job_poll(j) ==
  /\ pc[j] = "v1_scan"
  /\ LET ready == IF fs[j].meta = "ok" THEN ready_clips(j, fs[j]) ELSE <<>>
         scanned == IF ready # <<>>
                    THEN [jobs EXCEPT ![j].result = Some([clips |-> ready])]
                    ELSE jobs
     IN  IF proc[j].state = "running"
         THEN jobs' = scanned /\ UNCHANGED <<pc, sem, relCount>>
         ELSE IF Get(proc[j].returncode) = 0
         THEN /\ jobs' = [scanned EXCEPT ![j].status = COMPLETED,
                                         ![j].logs = Append(@, <<"finished">>)]
              /\ Goto(j, "v1_result")
              /\ UNCHANGED <<sem, relCount>>
         ELSE /\ jobs' = [scanned EXCEPT ![j].status = FAILED,
                                         ![j].logs = Append(@, <<"exit", "code">>)]
              /\ Release(j)
              /\ Goto(j, "done")
  /\ UNCHANGED <<envVars, store, ttl, job_api_keys, queueVars, chan, loc, arg, procVars,
                 clock, resp, histVars, everTerminal>>
  /\ query' = None

\* lines 232-249 and 254-256, then the wrapper's finally (106-110)
run_job_result(j) ==
  /\ pc[j] = "v1_result"
  /\ jobs' = CASE fs[j].meta = "ok" ->
                    [jobs EXCEPT ![j].result = Some([clips |-> result_clips(j, fs[j])])]
               [] fs[j].meta = "none" -> V1Set(j, FAILED, <<"No", "metadata">>)
               [] OTHER -> V1Set(j, FAILED, <<"Execution", "error">>)
  /\ Release(j)
  /\ Goto(j, "done")
  /\ UNCHANGED <<envVars, store, ttl, job_api_keys, queueVars, chan, loc, arg, procVars,
                 clock, resp, histVars, everTerminal>>
  /\ query' = None

(* ------------- GET /api/v2/jobs/{id} and /api/v2/jobs/{id}/result ----- *)
Answer(kind, j, code, body) ==
  Some([kind |-> kind, job_id |-> j, code |-> code, body |-> body])

JobStatusResponse(job) ==
  Some([status |-> job.status, progress_percentage |-> job.progress_percentage,
        progress_stage |-> job.progress_stage, logs |-> job.logs,
        created_at |-> job.created_at, started_at |-> job.started_at,
        error |-> job.error])

JobResultResponse(job) ==
  Some([status |-> job.status, result |-> job.result,
        completed_at |-> job.completed_at])

\* a query that answers 200 for an id whose lookup found no record
MissingCodeOk == "ok"

\* the HTTP status of a query for an id whose lookup found no record
MissingCode == "not_found"

\* lines 527-546
get_job_status_v2(j) ==
  /\ query' = IF ~redisUp THEN Answer("status", j, "unavailable", None)
              ELSE IF get_job(store, j) = None
              THEN Answer("status", j, MissingCode, None)
              ELSE Answer("status", j, "ok", JobStatusResponse(store[j]))
  /\ UNCHANGED <<envVars, store, ttl, job_api_keys, queueVars, jobs, sem, chan, pc, loc,
                 arg, procVars, clock, resp, histVars, relCount, everTerminal>>

\* lines 552-567
get_job_result_v2(j) ==
  /\ query' = IF ~redisUp THEN Answer("result", j, "unavailable", None)
              ELSE IF get_job(store, j) = None
              THEN Answer("result", j, MissingCode, None)
              ELSE Answer("result", j, "ok", JobResultResponse(store[j]))
  /\ UNCHANGED <<envVars, store, ttl, job_api_keys, queueVars, jobs, sem, chan, pc, loc,
                 arg, procVars, clock, resp, histVars, relCount, everTerminal>>

(* --------------------------- parse_progress --------------------------- *)
\* lines 323-325: one call `progress = parse_progress(line_str)`
parse_progress_call ==
  /\ extracted = None
  /\ extracted' = Some(parse_progress(log_line))
  /\ UNCHANGED <<K, redisUp, workload, log_line, store, ttl, job_api_keys, queueVars,
                 jobs, sem, chan, pc, loc, arg, procVars, clock, resp, histVars,
                 relCount, everTerminal>>
  /\ query' = None

(* --------------------------- specification ---------------------------- *)
\* the store-backed channel: submission, dispatch, wrapper and Supervisor
\* tasks of the jobs J on the event loop, and the end of their processes
V2Step(J) ==
  \/ \E j \in J : process_v2_check(j)
  \/ \E j \in J : process_v2_create(j)
  \/ \E j \in J : process_v2_put(j)
  \/ dispatcher_get("v2")
  \/ dispatcher_acquire("v2")
  \/ \E j \in J : run_job_v2_wrapper_start(j)
  \/ \E j \in J : run_job_v2_wrapper_get(j)
  \/ \E j \in J : helper_get(j)
  \/ \E j \in J : helper_set(j)
  \/ \E j \in J : run_job_v2_spawn(j)
  \/ \E j \in J : check_partial_results_v2(j)
  \/ \E j \in J : run_job_v2_loop(j)
  \/ \E j \in J : run_job_v2_finally(j)
  \/ \E j \in J : process_exits(j)

\* the in-memory channel
V1Step(J) ==
  \/ \E j \in J : process_endpoint(j)
  \/ dispatcher_get("v1")
  \/ dispatcher_acquire("v1")
  \/ \E j \in J : run_job_start(j)
  \/ \E j \in J : run_job_poll(j)
  \/ \E j \in J : run_job_result(j)

\* what a running process leaves in its output directory
FilesStep(J) ==
  \/ \E j \in J : process_writes_descriptor(j)
  \/ \E j \in J : process_writes_clip(j)

\* the log threads and the coroutines they schedule
LogStep(J) ==
  \/ \E j \in J : thread_reads_line(j)
  \/ \E j \in J : thread_ends(j)
  \/ \E c \in coros : coro_get(c)
  \/ \E c \in coros : coro_set(c)

\* the Redis server going away and coming back
OutageStep ==
  \/ redis_fails
  \/ redis_recovers

ExpiryStep(J) == \E j \in J : key_expires(j)

\* time passing over a key short of its expiry
AgeStep(J) == \E j \in J : key_ages(j)

\* a process taking a clip file away again
RemoveStep(J) == \E j \in J : process_removes_clip(j)

\* the two query endpoints
QueryStep(J) ==
  \/ \E j \in J : get_job_status_v2(j)
  \/ \E j \in J : get_job_result_v2(j)

\* Spec: every job of both channels through submission, the gate and its
\* Supervisor, with Redis outages; the processes print and write nothing
Next ==
  \/ V2Step(JobIds)
  \/ V1Step(JobIds)
  \/ OutageStep

Spec == Init /\ [][Next]_vars

\* SpecJob: the first job alone, with all its process prints and writes,
\* Redis outages and key expiry
FirstJob == {1}

NextJob ==
  \/ V2Step(FirstJob)
  \/ V1Step(FirstJob)
  \/ FilesStep(FirstJob)
  \/ LogStep(FirstJob)
  \/ OutageStep
  \/ ExpiryStep(FirstJob)

SpecJob == Init /\ [][NextJob]_vars

\* SpecQuery: submissions and Supervisors of the store-backed channel, Redis
\* outages, key expiry and the two query endpoints
NextQuery ==
  \/ V2Step(JobIds)
  \/ OutageStep
  \/ ExpiryStep(JobIds)
  \/ QueryStep(JobIds)

SpecQuery == Init /\ [][NextQuery]_vars

\* SpecCalm: as Spec, while the Redis server stays reachable
NextCalm ==
  \/ V2Step(JobIds)
  \/ V1Step(JobIds)

SpecCalm == Init /\ [][NextCalm]_vars

\* SpecRun: as SpecJob, while the server stays reachable and no key expires
NextRun ==
  \/ V2Step(FirstJob)
  \/ V1Step(FirstJob)
  \/ FilesStep(FirstJob)
  \/ LogStep(FirstJob)

SpecRun == Init /\ [][NextRun]_vars

\* SpecScan: the first job on the store-backed channel with a process that
\* prints nothing and lists up to ScanClips clips, whose files come and go
InitScan == InitWith(0, ScanClips)

NextScan ==
  \/ V2Step(FirstJob)
  \/ FilesStep(FirstJob)
  \/ RemoveStep(FirstJob)

SpecScan == InitScan /\ [][NextScan]_vars

\* SpecLog: the first job on the store-backed channel with a process that
\* prints up to LogLines lines and writes no file
InitLog == InitWith(LogLines, 0)

NextLog ==
  \/ V2Step(FirstJob)
  \/ LogStep(FirstJob)

SpecLog == InitLog /\ [][NextLog]_vars

\* SpecTtl: as SpecRun for the store-backed channel, with time passing over
\* the key and the key expiring
NextTtl ==
  \/ V2Step(FirstJob)
  \/ FilesStep(FirstJob)
  \/ LogStep(FirstJob)
  \/ AgeStep(FirstJob)
  \/ ExpiryStep(FirstJob)

SpecTtl == Init /\ [][NextTtl]_vars

\* the end of the log threads
ThreadStep(J) == \E j \in J : thread_ends(j)

\* SpecThreads: every job on the store-backed channel with its log thread,
\* which ends at some time after the process has exited; the server stays
\* reachable and the processes print nothing
NextThreads ==
  \/ V2Step(JobIds)
  \/ ThreadStep(JobIds)

SpecThreads == Init /\ [][NextThreads]_vars

\* the steps of job j's own tasks on the store-backed channel: the rest of
\* its submit request, its wrapper and its Supervisor
TaskStep(j) ==
  \/ process_v2_create(j)
  \/ process_v2_put(j)
  \/ run_job_v2_wrapper_start(j)
  \/ run_job_v2_wrapper_get(j)
  \/ helper_get(j)
  \/ helper_set(j)
  \/ run_job_v2_spawn(j)
  \/ check_partial_results_v2(j)
  \/ run_job_v2_loop(j)
  \/ run_job_v2_finally(j)

\* SpecLive: every job on the store-backed channel while the server stays
\* reachable. The event loop runs every task that is ready (a request past
\* its first await, the dispatcher of lines 261-272, a wrapper and its
\* Supervisor), and every external process exits at some time.
NextLive == V2Step(JobIds)

Fairness ==
  /\ WF_vars(dispatcher_get("v2"))
  /\ WF_vars(dispatcher_acquire("v2"))
  /\ \A j \in JobIds : WF_vars(TaskStep(j))
  /\ \A j \in JobIds : WF_vars(process_exits(j))

SpecLive == Init /\ [][NextLive]_vars /\ Fairness

\* SpecProgress: parse_progress called once on any line of up to MaxWords
\* words
InitProgress == InitLine(MaxLines, MaxClips, ProgressLines)

NextProgress == parse_progress_call

SpecProgress == InitProgress /\ [][NextProgress]_vars

(* ------------------------------ claims -------------------------------- *)
InSeq(s, x) == \E i \in 1..Len(s) : s[i] = x
Before(s, a, b) == \E i, k \in 1..Len(s) : i < k /\ s[i] = a /\ s[k] = b

StatusOf(j) == store[j].status
InProcessing ==
  {j \in DOMAIN store : store[j].status = PROCESSING}
  \cup {j \in DOMAIN jobs : jobs[j].status = PROCESSING}

\* no store write for job j is pending or still to come: its task, its log
\* thread and the coroutines the thread scheduled are all finished
Settled(j) ==
  /\ pc[j] = "done"
  /\ thread[j] = "closed"
  /\ \A c \in coros : c.job # j

\* C1: at no instant do more than K job records (of either channel) have
\* status Processing.
C1_AtMostKProcessing == Cardinality(InProcessing) <= K

\* C2: once a stored record is Completed or Failed, no step changes its
\* status, result or error (the record's expiry aside).
C2_TerminalSticky ==
  [][\A j \in DOMAIN store :
       (store[j].status \in Terminal /\ j \in DOMAIN store')
       => /\ store'[j].status = store[j].status
          /\ store'[j].result = store[j].result
          /\ store'[j].error = store[j].error]_vars

\* C3: with K = 1 and X put on the store-backed queue before Y, Y's record
\* is Queued with no started timestamp unless X has reached a terminal state.
C3_SecondWaitsForFirst ==
  K = 1 =>
    \A x, y \in JobIds :
      ( /\ chan[x] = "v2" /\ chan[y] = "v2"
        /\ Before(putOrder, x, y)
        /\ y \in DOMAIN store
        /\ (store[y].status # QUEUED \/ IsSome(store[y].started_at)) )
      => x \in everTerminal

\* C4: for two jobs A, B put on the same channel's queue in that order, the
\* gate slot for A is acquired before the gate slot for B.
C4_DispatchFifo ==
  \A a, b \in JobIds :
    (chan[a] = chan[b] /\ Before(putOrder, a, b) /\ InSeq(acqOrder, b))
    => Before(acqOrder, a, b)

\* C4 witness: B, submitted after A on the same channel, has reached a
\* terminal state while A, already dispatched, has not.
C4_Witness ==
  \E a, b \in JobIds :
    /\ chan[a] = "v2" /\ chan[b] = "v2"
    /\ Before(putOrder, a, b) /\ Before(acqOrder, a, b)
    /\ b \in everTerminal /\ a \notin everTerminal

C6_NoSecretWhenTerminal ==
  \A j \in DOMAIN store :
    store[j].status \in Terminal => j \notin DOMAIN job_api_keys

\* C6 amended: whenever a stored status is Completed or Failed and the job's
\* Supervisor task has ended, the secret map holds no entry for that id.
C6_NoSecretOnceEnded ==
  \A j \in DOMAIN store :
    (store[j].status \in Terminal /\ pc[j] = "done") => j \notin DOMAIN job_api_keys

\* C6 witness: a Completed job whose Supervisor has ended and whose secret
\* is gone from the map.
C6_Witness ==
  \E j \in DOMAIN store :
    /\ store[j].status = COMPLETED /\ pc[j] = "done"
    /\ j \notin DOMAIN job_api_keys

\* C7: a job whose process exited 0 without a descriptor file ends Failed
\* with the missing-metadata error, and not Completed.
C7_NoDescriptorFails ==
  \A j \in DOMAIN store :
    ( /\ chan[j] = "v2" /\ Settled(j)
      /\ proc[j] = Exited(0) /\ fs[j].meta = "none" )
    => (store[j].status = FAILED /\ store[j].error = NoMetadataError)

\* C8: a job whose process exited with a nonzero code N ends Failed with an
\* error naming N, and finalize_job_v2 did not run for it.
C8_NonzeroExitFails ==
  \A j \in DOMAIN store :
    ( /\ chan[j] = "v2" /\ Settled(j)
      /\ proc[j].state = "exited" /\ Get(proc[j].returncode) # 0 )
    => /\ store[j].status = FAILED
       /\ store[j].error = ExitCodeError(Get(proc[j].returncode))
       /\ finRuns[j] = 0

C10_UnavailableSubmit ==
  [][\A j \in JobIds :
       /\ (chan[j] = "none" /\ chan'[j] = "v2" /\ ~redisUp)
          => /\ resp'[j] = "unavailable"
             /\ UNCHANGED <<store, job_api_keys, job_queue_v2, putOrder>>
       /\ resp[j] = "unavailable"
          => /\ j \notin DOMAIN store'
             /\ j \notin DOMAIN job_api_keys'
             /\ ~InSeq(job_queue_v2', j) /\ ~InSeq(putOrder', j)]_vars

\* C10 witness: a submission was refused as Unavailable while another job
\* is in the store.
C10_Witness ==
  \E j \in JobIds :
    /\ resp[j] = "unavailable"
    /\ j \notin DOMAIN store /\ DOMAIN store # {}

\* the clips a stored result holds (no result: no clips)
ClipsOf(result) == IF result = None THEN <<>> ELSE Get(result).clips

\* the indices 1..n of a descriptor's entries, in descriptor order
Indices(n) == [i \in 1..n |-> i]

\* the descriptor indices of a directory whose artifact file is there
ReadyIdx(dir) == SelectSeq(Indices(dir.n), LAMBDA i : i \in dir.arts)

\* the ready clips of a directory, in descriptor order, each with the
\* locator of its own descriptor index
ReadyOf(j, dir) == [k \in 1..Len(ReadyIdx(dir)) |-> ClipResult(j, ReadyIdx(dir)[k])]

\* C11: when a scan over a parsed descriptor of n >= 1 entries finishes, the
\* stored result holds exactly the clips whose artifact file was there at
\* the scan, in descriptor order, each with the locator of its own index.
C11_ScanStoresReady ==
  [][\A j \in DOMAIN store :
       ( /\ pc[j] \in {"scan", "sr_set"} /\ pc'[j] = "check"
         /\ IsSome(scanDir'[j])
         /\ Get(scanDir'[j]).meta = "ok" /\ Get(scanDir'[j]).n >= 1
         /\ j \in DOMAIN store' )
       => ClipsOf(store'[j].result) = ReadyOf(j, Get(scanDir'[j]))]_vars

\* C11, the part the scanner gets right: a scan that finds at least one
\* artifact stores exactly the ready clips, in order, with their locators.
C11_ScanWithReadyClips ==
  [][\A j \in DOMAIN store :
       ( /\ pc[j] \in {"scan", "sr_set"} /\ pc'[j] = "check"
         /\ IsSome(scanDir'[j])
         /\ Get(scanDir'[j]).meta = "ok" /\ ReadyIdx(Get(scanDir'[j])) # <<>>
         /\ j \in DOMAIN store' )
       => store'[j].result = Some(JobResult(ReadyOf(j, Get(scanDir'[j]))))]_vars

\* a scan of a descriptor of 3 entries with artifacts 1 and 3 stored
\* [clip1, clip3]
C11_Scenario ==
  \E j \in DOMAIN store :
    /\ pc[j] = "check" /\ IsSome(scanDir[j])
    /\ Get(scanDir[j]).n = 3 /\ Get(scanDir[j]).arts = {1, 3}
    /\ store[j].result = Some(JobResult(<<ClipResult(j, 1), ClipResult(j, 3)>>))

\* one entry per descriptor entry 1..n, in descriptor order
AllOf(j, n) == [i \in 1..n |-> ClipResult(j, i)]

\* C12: whenever a stored status is Completed, the stored result is the
\* complete ordered clip list of the descriptor (whatever artifacts exist),
\* and no step replaces the result of a Completed record.
C12_CompletedHasFullResult ==
  [][\A j \in DOMAIN store' :
       /\ store'[j].status = COMPLETED
          => store'[j].result = Some(JobResult(AllOf(j, fs'[j].n)))
       /\ (j \in DOMAIN store /\ store[j].status = COMPLETED)
          => store'[j].result = store[j].result]_vars

\* a step in which a write of job j's record reaches the server: the SET of
\* process_v2's create_job, of a Supervisor helper, or of a log coroutine
WritesRecord(j) ==
  /\ redisUp
  /\ \/ pc[j] = "s_create" /\ pc'[j] = "s_put"
     \/ pc[j] \in SetLabels /\ pc'[j] # pc[j]
     \/ \E c \in coros \ coros' : c.job = j /\ IsSome(c.loc)

\* C13: every write of a job's record (create, append_log, set_status,
\* update_progress, set_result) leaves the key with the full retention
\* window of 24 hours, and nothing else gives a key more time.
C13_WriteResetsExpiry ==
  [][\A j \in JobIds :
       /\ WritesRecord(j) => (j \in DOMAIN ttl' /\ ttl'[j] = 24 * 60 * 60)
       /\ (j \in DOMAIN ttl /\ j \in DOMAIN ttl' /\ ttl'[j] > ttl[j])
          => WritesRecord(j)]_vars

\* C13 witness: a key with the full window whose record went through
\* create, set_status, append_log and update_progress, to a terminal status.
C13_Witness ==
  \E j \in DOMAIN store :
    /\ ttl[j] = 24 * 60 * 60
    /\ Len(store[j].logs) > 2
    /\ store[j].progress_percentage > 0
    /\ store[j].status \in Terminal

\* C14: a record's started timestamp is assigned at the step that takes it
\* from Queued to Processing and at no other, its completed timestamp at the
\* step that takes it into Completed or Failed and at no other, and neither
\* is cleared or reassigned once set.
C14_TimestampsAssignedOnce ==
  [][\A j \in DOMAIN store \cap DOMAIN store' :
       LET old == store[j]
           new == store'[j]
       IN  /\ IsSome(old.started_at) => new.started_at = old.started_at
           /\ IsSome(old.completed_at) => new.completed_at = old.completed_at
           /\ (old.started_at = None /\ IsSome(new.started_at))
              <=> (old.status = QUEUED /\ new.status = PROCESSING)
           /\ (old.completed_at = None /\ IsSome(new.completed_at))
              <=> (old.status \notin Terminal /\ new.status \in Terminal)]_vars

\* the status changes of the job lifecycle
Forward == {<<QUEUED, PROCESSING>>, <<PROCESSING, COMPLETED>>, <<PROCESSING, FAILED>>}

\* C15: a record is created Queued, and every change of its status is
\* Queued to Processing, Processing to Completed or Processing to Failed.
C15_StatusOnlyForward ==
  [][\A j \in DOMAIN store' :
       IF j \in DOMAIN store
       THEN store'[j].status # store[j].status
            => <<store[j].status, store'[j].status>> \in Forward
       ELSE store'[j].status = QUEUED]_vars

\* the fields of a stored record
RecordFields ==
  {"job_id", "status", "created_at", "started_at", "completed_at",
   "progress_percentage", "progress_stage", "logs", "result", "error"}

Distinct(lines) == \A m, n \in 1..Len(lines) : lines[m] = lines[n] => m = n

\* C17: the lines of a job's process that are in its stored log are there in
\* the order the process produced them.
C17_LogInProducedOrder ==
  \A j \in DOMAIN store :
    Distinct(emitted[j]) =>
      \A p, q \in 1..Len(store[j].logs) :
        \A m, n \in 1..Len(emitted[j]) :
          ( /\ p < q
            /\ store[j].logs[p] = emitted[j][m]
            /\ store[j].logs[q] = emitted[j][n] )
          => m < n

\* C18: a dispatched job in whose Supervisor an exception was raised ends,
\* once its task is over, Failed with the exception's message as error.
C18_ExceptionEndsFailed ==
  \A j \in DOMAIN store :
    (chan[j] = "v2" /\ pc[j] = "done" /\ IsSome(raised[j]))
    => (store[j].status = FAILED /\ store[j].error = raised[j])

\* C19: once the task of a dispatched job has ended, on whatever path, the
\* secret map holds no entry for the job.
C19_SecretErasedOnEveryExit ==
  \A j \in JobIds :
    (chan[j] = "v2" /\ pc[j] = "done") => j \notin DOMAIN job_api_keys

\* C20: the write of an append_log or update_progress scheduled by the log
\* bridge leaves the stored status as it was immediately before the write.
C20_LogWriteKeepsStatus ==
  [][\A c \in coros \ coros' :
       (IsSome(c.loc) /\ redisUp /\ c.job \in DOMAIN store)
       => store'[c.job].status = store[c.job].status]_vars

\* the Result Finalizer of job j is between its start and its last store write
FinalizerRunning(j) ==
  /\ finRuns[j] > 0
  /\ pc[j] \in {"fr_get", "fr_set", "cs_get", "cs_set", "fs_get", "fs_set"}

\* a log write (append_log or update_progress) of job j is scheduled or half done
LogWriteInFlight(j) == \E c \in coros : c.job = j

\* C21: while the Result Finalizer of a job runs, no append_log or
\* update_progress write of that job's Log Stream Bridge is in flight or
\* gets started: all of them have finished before the Finalizer starts
C21_FinalizerAfterLogWrites ==
  \A j \in JobIds : FinalizerRunning(j) => ~LogWriteInFlight(j)

\* C22: the Result Finalizer of a job starts at most once, and only when the
\* job's process has exited with code 0 and the Supervisor has raised nothing
C22_FinalizerOnceAfterExitZero ==
  [][\A j \in JobIds :
       finRuns'[j] # finRuns[j] =>
         /\ finRuns[j] = 0 /\ finRuns'[j] = 1
         /\ proc[j] = Exited(0)
         /\ raised[j] = None]_vars

\* a job whose Finalizer ran after exit code 0 and stored COMPLETED
C22_Witness ==
  \E j \in JobIds :
    /\ finRuns[j] = 1 /\ proc[j] = Exited(0)
    /\ j \in DOMAIN store /\ store[j].status = COMPLETED

\* the set of entries of a sequence
Range(seq) == { seq[k] : k \in DOMAIN seq }

\* the clips of job j that are ready in a directory: a descriptor entry with
\* its artifact file
ReadySet(j, dir) == { ClipResult(j, i) : i \in dir.arts \cap 1..dir.n }

\* C23: after a scan that read a non-empty descriptor without error, the
\* stored result is exactly the set of clips ready at that scan, whatever
\* was stored before: also when fewer clips, or none, are ready than before
C23_ScanReplacesResult ==
  [][\A j \in DOMAIN store :
       ( /\ pc[j] \in {"scan", "sr_set"} /\ pc'[j] = "check"
         /\ IsSome(scanDir'[j]) /\ Get(scanDir'[j]).meta = "ok"
         /\ j \in DOMAIN store' )
       => Range(ClipsOf(store'[j].result)) = ReadySet(j, Get(scanDir'[j]))]_vars

\* job j's record is the same before and after the step
RecordUnchanged(j) ==
  /\ (j \in DOMAIN store) = (j \in DOMAIN store')
  /\ j \in DOMAIN store => store'[j] = store[j]

\* C24: a scan that finds no descriptor, a zero-byte descriptor or one that
\* does not parse leaves the job's record as it was and raises nothing, and
\* while the process is alive the Supervisor's next step is another scan
C24_FailedScanIsSilent ==
  [][\A j \in JobIds :
       /\ (pc[j] = "scan" /\ pc'[j] # "scan" /\ fs[j].meta # "ok")
          => /\ pc'[j] = "check"
             /\ RecordUnchanged(j)
             /\ raised'[j] = raised[j]
       /\ ( /\ pc[j] = "check" /\ pc'[j] # "check"
            /\ IsSome(scanDir[j]) /\ Get(scanDir[j]).meta # "ok"
            /\ proc[j].state = "running" )
          => /\ pc'[j] = "scan"
             /\ RecordUnchanged(j)
             /\ raised'[j] = raised[j]]_vars

\* a scan of a descriptor that does not parse has returned to the loop
\* with the process alive, the record Processing and nothing raised
C24_Witness ==
  \E j \in DOMAIN store :
    /\ pc[j] = "check" /\ IsSome(scanDir[j]) /\ Get(scanDir[j]).meta = "bad"
    /\ proc[j].state = "running" /\ raised[j] = None
    /\ store[j].status = PROCESSING

\* sequence a is an initial part of sequence b
IsPrefix(a, b) == Len(a) <= Len(b) /\ SubSeq(b, 1, Len(a)) = a

\* C25: the stored log of a job only grows at its end: across every step the
\* log stored before is a prefix of the log stored after
C25_LogAppendOnly ==
  [][\A j \in DOMAIN store \cap DOMAIN store' :
       IsPrefix(store[j].logs, store'[j].logs)]_vars

\* a needle (one word, or adjacent words) occurs in a line, whatever the case
Occurs(needle, line) ==
  \E i \in 0..(Len(line) - Len(needle)) :
    \A k \in 1..Len(needle) : needle[k] \in Within(Lower(line[i + k]))

\* the (percentage, stage) of the first rule of a table that has a needle
\* occurring in the line, or nothing
FirstRule(table, line) ==
  LET hits == { i \in DOMAIN table : \E nd \in table[i].needles : Occurs(nd, line) }
  IN IF hits = {} THEN None
     ELSE LET first == CHOOSE i \in hits : \A k \in hits : i <= k
          IN Some(<<table[first].pct, table[first].stage>>)

Rule(needles, pct, stage) == [needles |-> needles, pct |-> pct, stage |-> stage]

\* the rule table with "analyz" as the substring of its third rule
RulesAnalyz ==
  << Rule({<<"downloading">>}, 10, "Downloading video"),
     Rule({<<"transcribing">>}, 30, "Transcribing audio"),
     Rule({<<"analyz">>, <<"gemini">>}, 50, "AI analysis"),
     Rule({<<"processing", "clip">>, <<"extracting">>}, 70, "Creating clips"),
     Rule({<<"clip", "saved">>, <<"saved", "to">>}, 90, "Finalizing") >>

\* the rule table with "analyzing" as the substring of its third rule
RulesAnalyzing == [RulesAnalyz EXCEPT ![3].needles = {<<"analyzing">>, <<"gemini">>}]

\* C26: for every line the Progress Extractor returns the (percentage,
\* stage) of the first rule in table order, with "analyz" followed by
\* anything as the substring of the third rule, and nothing without a match
C26_FirstRuleAnalyz ==
  IsSome(extracted) => Get(extracted) = FirstRule(RulesAnalyz, log_line)

\* C26 amended: for every line the Progress Extractor returns the
\* (percentage, stage) of the first rule in table order whose substring
\* occurs in the line in any case, with "analyzing" or "gemini" as the
\* substrings of the third rule, and nothing when no rule matches
C26_FirstRuleAnalyzing ==
  IsSome(extracted) => Get(extracted) = FirstRule(RulesAnalyzing, log_line)

\* a line with "transcribing" before "downloading" got the first rule's 10
C26_Witness ==
  /\ log_line = <<"TRANSCRIBING", "Downloading">>
  /\ extracted = Some(Some(<<10, "Downloading video">>))

\* C27: every progress update that reaches the store is applied whatever
\* the stored percentage is: after its write the stored percentage is the
\* value of the rule its line matched, also when that is lower than before
C27_ProgressUnconditional ==
  [][\A c \in coros \ coros' :
       (c.kind = "update_progress" /\ IsSome(c.loc) /\ redisUp)
       => /\ c.job \in DOMAIN store'
          /\ store'[c.job].progress_percentage = Get(parse_progress(c.line))[1]]_vars

\* a job printed a "transcribing" line and then a "downloading" line; the
\* stored percentage was 30 when a pending append_log read it and is now 10
C27_Witness ==
  \E j \in DOMAIN store :
    /\ emitted[j] = << <<"TRANSCRIBING", "audio">>, <<"Downloading", "video">> >>
    /\ store[j].progress_percentage = 10
    /\ \E c \in coros :
         /\ c.job = j /\ c.kind = "append_log" /\ IsSome(c.loc)
         /\ Get(c.loc).progress_percentage = 30

\* C28: a stored record carries an error message only if its status is
\* Failed; no Queued, Processing or Completed record has one
C28_ErrorOnlyWhenFailed ==
  \A j \in DOMAIN store : IsSome(store[j].error) => store[j].status = FAILED

\* a record that is Failed with its error message stored
C28_Witness ==
  \E j \in DOMAIN store :
    /\ store[j].status = FAILED /\ store[j].error = ExitCodeError(7)
    /\ pc[j] = "done"

\* the jobs that hold a gate slot: acquired for them and not yet released
SlotHolders == { j \in JobIds : InSeq(acqOrder, j) /\ relCount[j] = 0 }

\* the jobs whose log-draining thread is alive
ThreadsAlive == { j \in JobIds : thread[j] = "reading" }

\* C29: log-draining threads belong to the jobs holding a gate slot, one
\* each, so at no instant are more than K of them alive
C29_ThreadsWithinGate ==
  /\ ThreadsAlive \subseteq SlotHolders
  /\ Cardinality(ThreadsAlive) <= K

\* C30: in the in-memory channel no job's status is assigned 'completed'
\* and afterwards 'failed': a job that fails after exit code 0 goes from
\* processing to failed without having been completed
C30_NoFailedAfterCompleted ==
  [][\A j \in DOMAIN jobs \cap DOMAIN jobs' :
       ~(jobs[j].status = COMPLETED /\ jobs'[j].status = FAILED)]_vars

\* job j's submission has succeeded: its record is created and its id is on
\* the queue
Submitted(j) == resp[j] = "queued"

\* job j's stored status is Completed or Failed
StoredTerminal(j) == j \in DOMAIN store /\ store[j].status \in Terminal

\* C31: with the store reachable and every process exiting, every job whose
\* submission succeeded is eventually dispatched, and its stored status
\* eventually is Completed or Failed and stays so
C31_EveryJobEndsTerminal ==
  \A j \in JobIds :
    /\ Submitted(j) ~> InSeq(acqOrder, j)
    /\ Submitted(j) ~> [](StoredTerminal(j))

\* the part of C31 about dispatch alone
C31_EveryJobDispatched ==
  \A j \in JobIds : Submitted(j) ~> InSeq(acqOrder, j)

\* C32: the free gate slots are between 0 and K and are K minus the jobs of
\* both channels that acquired a slot and have not released it, so no
\* release takes the free count above K
C32_GateAccounting ==
  /\ sem \in 0..K
  /\ sem = K - Cardinality(SlotHolders)

\* the one slot of a gate of 1 was released by a job of one channel and is
\* now held by a job of the other
C32_Witness ==
  /\ K = 1 /\ sem = 0
  /\ \E a \in SlotHolders, b \in JobIds :
       relCount[b] = 1 /\ chan[a] = "v1" /\ chan[b] = "v2"

\* C33: in every stored record started_at is set exactly when the status is
\* Processing, Completed or Failed, and completed_at is set exactly when the
\* status is Completed or Failed
C33_TimestampsAgreeWithStatus ==
  \A j \in DOMAIN store :
    /\ IsSome(store[j].started_at) <=> store[j].status \in {PROCESSING, COMPLETED, FAILED}
    /\ IsSome(store[j].completed_at) <=> store[j].status \in Terminal

\* a Completed record with both timestamps, the completed one the later
C33_Witness ==
  \E j \in DOMAIN store :
    /\ store[j].status = COMPLETED
    /\ IsSome(store[j].started_at) /\ IsSome(store[j].completed_at)
    /\ Get(store[j].started_at) < Get(store[j].completed_at)

\* C34: a helper (append_log, set_status, update_progress, set_result) that
\* reads the store and finds no record of its job writes nothing and raises
\* nothing: the Supervisor goes on after the call, a log coroutine just
\* ends, and the job still has no record
C34_MissingRecordNoWrite ==
  [][\A j \in JobIds :
       (redisUp /\ j \notin DOMAIN store)
       => /\ (pc[j] \in GetLabels /\ pc'[j] # pc[j])
             => /\ j \notin DOMAIN store'
                /\ pc'[j] = AfterCall(Call(pc[j]))
                /\ loc'[j] = None
                /\ raised'[j] = raised[j]
          /\ (\E c \in coros \ coros' : c.job = j /\ c.loc = None)
             => /\ j \notin DOMAIN store'
                /\ coros' \subseteq coros
                /\ raised'[j] = raised[j]]_vars

\* a Supervisor that went through its terminal set_status without an
\* exception and without a terminal record ever stored: the helper found no
\* record, and there is none now
C34_Witness ==
  \E j \in JobIds :
    /\ chan[j] = "v2" /\ pc[j] = "done" /\ proc[j].state = "exited"
    /\ raised[j] = None /\ j \notin everTerminal
    /\ j \notin DOMAIN store

\* how many times x occurs in the sequence s
Count(s, x) == Cardinality({ i \in 1..Len(s) : s[i] = x })

\* how many times the dispatchers hold x, taken off a queue and not started
Held(x) == Cardinality({ c \in DOMAIN disp : disp[c] = Some(x) })

\* C35: an id is put on a queue exactly once if its submission succeeded
\* and never otherwise; a put id is at one place at a time (on its queue,
\* held by the dispatcher, or handed to a wrapper task), so it is taken at
\* most once and gets at most one Supervisor; and a dispatcher holds at most
\* one id while it waits for a gate slot
C35_PutOnceTakenOnce ==
  /\ \A j \in JobIds :
       /\ Count(putOrder, j) = (IF Submitted(j) THEN 1 ELSE 0)
       /\ Count(acqOrder, j) <= 1
       /\ Count(job_queue_v2, j) + Count(job_queue, j) + Held(j) + Count(acqOrder, j)
            = Count(putOrder, j)
  /\ \A c \in DOMAIN disp : Len(disp[c]) <= 1

\* the dispatcher holds the second id, taken off the queue, while the first
\* job has the only slot
C35_Witness ==
  \E a, b \in JobIds :
    /\ a # b /\ K = 1 /\ sem = 0
    /\ acqOrder = <<a>> /\ disp["v2"] = Some(b)
    /\ putOrder = <<a, b>> /\ job_queue_v2 = <<>>

====
